---- MODULE Spec2Model ----
(***************************************************************************)
(* Music-player session controller of utils/MusicPlayerInteraction.py:     *)
(* the Queue, the vote sets, Player.play_next_song, the control-surface    *)
(* refresh Player.songmenucontroller and Player.teardown, run as           *)
(* coroutines of one cooperative event loop.  An action is one             *)
(* non-suspending segment of a coroutine: from its call, or from the       *)
(* await it is suspended in, to the next await that really suspends.       *)
(***************************************************************************)
EXTENDS Integers, Sequences, FiniteSets

\* ---------------------------------------------------------------- bounds
NumTasks == 2       \* coroutines of the session that can be in flight at once
MaxEnq == 2         \* tracks handed to Queue.put over a run
MaxPlays == 2       \* play requests recorded over a run
MaxMsgs == 2        \* messages the session sends over a run
MaxCasts == 1       \* votes cast over a run
NumVoters == 1      \* distinct voters
MaxBallots == 4     \* votes the five listeners cast over a run
NumUsers == 3       \* users who invoke the owner cog's commands

\* ------------------------------------------------------ program constants
HistoryLimit == 10  \* channel.history(limit=10)

Tasks == 1..NumTasks
Voters == 1..NumVoters
None == 0
NoMenu == [id |-> None]

\* The six vote sets of Player.__init__.
VoteActions == {"pause", "resume", "skip", "shuffle", "stop", "clear"}

VARIABLES
    queue,      \* Queue._queue: the tracks waiting, head first
    nput,       \* number of tracks put so far; the k-th track put is track k
    popped,     \* history: the tracks returned by queue.get(), in order
    plays,      \* history: the tracks of the play requests sent to the node
    now,        \* Player.now
    current,    \* wavelink Player.current: the track being rendered, or None
    loop,       \* Player._loop
    waiting,    \* Player.waiting
    updating,   \* Player.updating
    menu,       \* Player.menu: NoMenu or the message object returned by send
    sent,       \* messages sent by the session so far; their ids are 1..sent
    deleted,    \* ids of the session's messages that no longer exist
    edited,     \* ids of the session's messages that were edited in place
    recent,     \* what channel.history(limit=10) yields, oldest first; 0 is a
                \* message of somebody else
    votes,      \* the six vote sets
    casts,      \* number of votes cast so far
    destroyed,  \* TRUE once Player.destroy() has released the node resource
    pc,         \* per task: where the coroutine is suspended
    caller,     \* per task: the call site of the running songmenucontroller
    sends,      \* per task: messages created by the running songmenucontroller
    qcall,      \* the last Queue.remove call: its index and what it raised
    tally,      \* the last threshold_met call: its arguments and its answer
    lava,       \* what run_lavalink_process has done and logged
    report      \* what cog_slash_command_error has sent last, and to whom

vars == <<queue, nput, popped, plays, now, current, loop, waiting, updating,
          menu, sent, deleted, edited, recent, votes, casts, destroyed,
          pc, caller, sends, qcall, tally, lava, report>>

queueVars == <<queue, nput, popped>>
chanVars == <<menu, sent, deleted, edited, recent>>
voteVars == <<votes, casts>>
unitVars == <<qcall, tally, lava, report>>

\* No Queue call yet, no threshold asked for, run_lavalink_process not run,
\* no error handled.
NoCall == [called |-> FALSE, method |-> "none", index |-> None, error |-> "none",
           value |-> None]
NoTally == [called |-> FALSE, action |-> "none", total |-> 0, count |-> 0,
            result |-> FALSE]
NotRun == [ran |-> FALSE, found |-> FALSE, launched |-> FALSE, rc |-> None,
           running_logged |-> FALSE, failure_logged |-> FALSE,
           missing_logged |-> FALSE]
NoReport == [invoker |-> None, command |-> "none", error |-> "none",
             sent |-> "none", via |-> "none", ephemeral |-> FALSE]

Init ==
    /\ queue = <<>>
    /\ nput = 0
    /\ popped = <<>>
    /\ plays = <<>>
    /\ now = None
    /\ current = None
    /\ loop = FALSE
    /\ waiting = FALSE
    /\ updating = FALSE
    /\ menu = NoMenu
    /\ sent = 0
    /\ deleted = {}
    /\ edited = {}
    /\ recent = <<>>
    /\ votes = [a \in VoteActions |-> {}]
    /\ casts = 0
    /\ destroyed = FALSE
    /\ pc = [t \in Tasks |-> "idle"]
    /\ caller = [t \in Tasks |-> "none"]
    /\ sends = [t \in Tasks |-> 0]
    /\ qcall = NoCall
    /\ tally = NoTally
    /\ lava = NotRun
    /\ report = NoReport

\* ------------------------------------------------------------ the library
\* wavelink Player.is_playing: a track is being rendered.
is_playing == current # None

\* wavelink Player.play(track): the track becomes the rendered one and the
\* play request goes to the node; the caller is suspended until it is sent.
play(track) ==
    /\ Len(plays) < MaxPlays
    /\ plays' = Append(plays, track)
    /\ current' = track

\* The last HistoryLimit elements of a sequence.
LastN(s, n) == IF Len(s) <= n THEN s ELSE SubSeq(s, Len(s) - n + 1, Len(s))

\* getattr: whether an object has the attribute.
HasAttr(obj, attr) == attr \in DOMAIN obj

\* ------------------------------------------------------------------ Queue
\* Queue.put that adds at the head instead of the tail.
put_AtHead ==
    /\ nput < MaxEnq
    /\ queue' = <<nput + 1>> \o queue
    /\ nput' = nput + 1
    /\ UNCHANGED <<popped, plays, now, current, loop, waiting, updating,
                   chanVars, voteVars, destroyed, pc, caller, sends>>
    /\ UNCHANGED unitVars

\* Queue.put (asyncio.Queue, unbounded): append at the tail, never blocks.
put ==
    /\ nput < MaxEnq
    /\ queue' = Append(queue, nput + 1)
    /\ nput' = nput + 1
    /\ UNCHANGED <<popped, plays, now, current, loop, waiting, updating,
                   chanVars, voteVars, destroyed, pc, caller, sends>>
    /\ UNCHANGED unitVars

\* Queue.clear, line 53.
clear ==
    /\ queue # <<>>
    /\ queue' = <<>>
    /\ UNCHANGED <<nput, popped, plays, now, current, loop, waiting, updating,
                   chanVars, voteVars, destroyed, pc, caller, sends, unitVars>>

\* The orders random.shuffle can leave a sequence in.
Shuffles(q) ==
    LET n == Len(q)
        Bijections == {f \in [1..n -> 1..n] :
                          \A a, b \in 1..n : a # b => f[a] # f[b]}
    IN  {[i \in 1..n |-> q[f[i]]] : f \in Bijections}

\* Queue.shuffle, line 59.
shuffle ==
    /\ \E q \in Shuffles(queue) : q # queue /\ queue' = q
    /\ UNCHANGED <<nput, popped, plays, now, current, loop, waiting, updating,
                   chanVars, voteVars, destroyed, pc, caller, sends, unitVars>>

\* The indexes the Queue is subscripted with.
RemoveIndexes == (0 - MaxEnq - 1)..(MaxEnq + 1)

\* The element of a deque at a Python index that is in range.
ItemAt(q, index) == q[IF index < 0 THEN Len(q) + index + 1 ELSE index + 1]

\* Queue.__getitem__ with an integer, line 38.
getitem(index) ==
    LET n == Len(queue)
        valid == 0 - n <= index /\ index < n
    IN  /\ qcall' = [called |-> TRUE, method |-> "getitem", index |-> index,
                     error |-> IF valid THEN "none" ELSE "IndexError",
                     value |-> IF valid THEN ItemAt(queue, index) ELSE None]
        /\ UNCHANGED <<queueVars, plays, now, current, loop, waiting,
                       updating, chanVars, voteVars, destroyed, pc, caller,
                       sends, tally, lava, report>>

\* del deque[index]: the sequence without its element at the Python index.
DelAt(q, index) ==
    LET pos == IF index < 0 THEN Len(q) + index + 1 ELSE index + 1
    IN  [k \in 1..(Len(q) - 1) |-> IF k < pos THEN q[k] ELSE q[k + 1]]

\* Queue.remove that takes an index past the end for the last element.
remove_Clamped(index) ==
    LET n == Len(queue)
        i == IF index >= n THEN n - 1 ELSE index
        valid == 0 - n <= i /\ i < n
    IN  /\ qcall' = [called |-> TRUE, method |-> "remove", index |-> index,
                     error |-> IF valid THEN "none" ELSE "IndexError",
                     value |-> None]
        /\ queue' = IF valid THEN DelAt(queue, i) ELSE queue
        /\ UNCHANGED <<nput, popped, plays, now, current, loop, waiting,
                       updating, chanVars, voteVars, destroyed, pc, caller,
                       sends, tally, lava, report>>

\* Queue.remove, line 65: del self._queue[index] raises IndexError unless
\* -len <= index < len.
remove(index) ==
    LET n == Len(queue)
        valid == 0 - n <= index /\ index < n
    IN  /\ qcall' = [called |-> TRUE, method |-> "remove", index |-> index,
                     error |-> IF valid THEN "none" ELSE "IndexError",
                     value |-> None]
        /\ queue' = IF valid THEN DelAt(queue, index) ELSE queue
        /\ UNCHANGED <<nput, popped, plays, now, current, loop, waiting,
                       updating, chanVars, voteVars, destroyed, pc, caller,
                       sends, tally, lava, report>>

\* ------------------------------------------------------------------ votes
\* A vote: the voter is added to the action's set.
cast(a, v) ==
    /\ casts < MaxCasts
    /\ votes' = [votes EXCEPT ![a] = @ \cup {v}]
    /\ casts' = casts + 1
    /\ UNCHANGED <<queueVars, plays, now, current, loop, waiting, updating,
                   chanVars, destroyed, pc, caller, sends>>
    /\ UNCHANGED unitVars

\* The connected listeners of the five-voter scenario.
Listeners == 1..5

\* A vote of one of the listeners; a repeated vote adds nothing.
cast_vote(a, v) ==
    /\ casts < MaxBallots
    /\ v \notin votes[a]
    /\ votes' = [votes EXCEPT ![a] = @ \cup {v}]
    /\ casts' = casts + 1
    /\ UNCHANGED <<queueVars, plays, now, current, loop, waiting, updating,
                   chanVars, destroyed, pc, caller, sends, unitVars>>

\* A threshold that rounds half the listeners up before comparing.
threshold_met_RoundedUp(action, total) ==
    Cardinality(votes[action]) > (total + 1) \div 2

\* threshold_met under the majority policy: more than half of the eligible
\* voters have cast for the action.
threshold_met(action, total) ==
    2 * Cardinality(votes[action]) > total

\* The gate of a control command asks whether the action's votes suffice.
ask(a, total) ==
    /\ tally' = [called |-> TRUE, action |-> a, total |-> total,
                 count |-> Cardinality(votes[a]),
                 result |-> threshold_met(a, total)]
    /\ UNCHANGED <<queueVars, plays, now, current, loop, waiting, updating,
                   chanVars, voteVars, destroyed, pc, caller, sends, qcall,
                   lava, report>>

\* The vote sets after lines 104-108 of play_next_song.
ClearedVotes ==
    [a \in VoteActions |->
        IF a \in {"pause", "resume", "skip", "shuffle", "stop"}
        THEN {} ELSE votes[a]]

\* ------------------------------------------------------- songmenucontroller
MenuPcs == {"m_send_first", "m_scan", "m_delete", "m_send_repl", "m_send_else"}
SendPcs == {"m_send_first", "m_send_repl", "m_send_else"}

\* Line 126 taking the rendered track instead of self.now.
AfterMenu_PlaysCurrent(t, c, skipped) ==
    IF c = "new" /\ loop
    THEN /\ play(current)
         /\ pc' = [pc EXCEPT ![t] = "play_loop"]
    ELSE /\ pc' = [pc EXCEPT ![t] =
                IF skipped /\ c = "alone" THEN "ret_skip" ELSE "ret_ok"]
         /\ UNCHANGED <<plays, current>>

\* play_next_song after its songmenucontroller call returned (c: the call
\* site): line 125 follows the try block of a new track, and the call of
\* line 128 and a call from a command are followed by the return.
AfterMenu(t, c, skipped) ==
    IF c = "new" /\ loop
    THEN /\ play(now)
         /\ pc' = [pc EXCEPT ![t] = "play_loop"]
    ELSE /\ pc' = [pc EXCEPT ![t] =
                IF skipped /\ c = "alone" THEN "ret_skip" ELSE "ret_ok"]
         /\ UNCHANGED <<plays, current>>

\* songmenucontroller without the test of line 134.
EnterMenu_NoUpdatingTest(t, c) ==
    /\ updating' = TRUE
    /\ sends' = [sends EXCEPT ![t] = 0]
    /\ caller' = [caller EXCEPT ![t] = c]
    /\ pc' = [pc EXCEPT ![t] =
           IF menu = NoMenu THEN "m_send_first" ELSE "m_scan"]
    /\ UNCHANGED <<plays, current>>

\* songmenucontroller, lines 134-144: from the call to the first await.
EnterMenu(t, c) ==
    IF updating
    THEN /\ AfterMenu(t, c, TRUE)
         /\ UNCHANGED <<updating, sends, caller>>
    ELSE /\ updating' = TRUE
         /\ sends' = [sends EXCEPT ![t] = 0]
         /\ caller' = [caller EXCEPT ![t] = c]
         /\ pc' = [pc EXCEPT ![t] =
                IF menu = NoMenu THEN "m_send_first" ELSE "m_scan"]
         /\ UNCHANGED <<plays, current>>

\* A command refreshes the control surface.
songmenucontroller(t) ==
    /\ pc[t] = "idle"
    /\ EnterMenu(t, "alone")
    /\ UNCHANGED <<queueVars, now, loop, waiting, chanVars, voteVars, destroyed>>
    /\ UNCHANGED unitVars

\* is_menu_available, lines 217-224, when the history scan ends (scanned:
\* without an HTTPException).
is_menu_available(scanned) ==
    IF ~scanned THEN FALSE
    ELSE IF recent = <<>> THEN FALSE
    ELSE IF ~HasAttr(menu, "message") THEN FALSE
    ELSE \E i \in 1..Len(recent) : recent[i] = menu.message.id

\* A refresh that edits the recorded message in place when it has one.
scan_done_EditInPlace(t, scanned) ==
    /\ pc[t] = "m_scan"
    /\ edited' = edited \cup {menu.id}
    /\ updating' = FALSE
    /\ caller' = [caller EXCEPT ![t] = "none"]
    /\ AfterMenu(t, caller[t], FALSE)
    /\ UNCHANGED <<queueVars, now, loop, waiting, menu, sent, deleted, recent,
                   voteVars, destroyed, sends>>
    /\ UNCHANGED unitVars

\* The await of is_menu_available ends, line 144.
scan_done(t, scanned) ==
    /\ pc[t] = "m_scan"
    /\ pc' = [pc EXCEPT ![t] =
            IF is_menu_available(scanned) THEN "m_send_else" ELSE "m_delete"]
    /\ UNCHANGED <<queueVars, plays, now, current, loop, waiting, updating,
                   chanVars, voteVars, destroyed, caller, sends>>
    /\ UNCHANGED unitVars

\* A refresh that lets the HTTPException of menu.delete() escape.
delete_done_Propagates(t, ok) ==
    /\ pc[t] = "m_delete"
    /\ ok => menu.id \notin deleted
    /\ deleted' = IF ok THEN deleted \cup {menu.id} ELSE deleted
    /\ recent' = IF ok THEN SelectSeq(recent, LAMBDA m : m # menu.id) ELSE recent
    /\ pc' = [pc EXCEPT ![t] = IF ok THEN "m_send_repl" ELSE "raised"]
    /\ caller' = [caller EXCEPT ![t] = IF ok THEN @ ELSE "none"]
    /\ UNCHANGED <<queueVars, plays, now, current, loop, waiting, updating,
                   menu, sent, edited, voteVars, destroyed, sends>>
    /\ UNCHANGED unitVars

\* The await of menu.delete() ends, lines 145-152: with the message gone, or
\* with an HTTPException (NotFound, Forbidden) that is logged.
delete_done(t, ok) ==
    /\ pc[t] = "m_delete"
    /\ ok => menu.id \notin deleted
    /\ deleted' = IF ok THEN deleted \cup {menu.id} ELSE deleted
    /\ recent' = IF ok THEN SelectSeq(recent, LAMBDA m : m # menu.id) ELSE recent
    /\ pc' = [pc EXCEPT ![t] = "m_send_repl"]
    /\ UNCHANGED <<queueVars, plays, now, current, loop, waiting, updating,
                   menu, sent, edited, voteVars, destroyed, caller, sends>>
    /\ UNCHANGED unitVars

\* The await of channel.send ends with the new message, lines 140, 152, 156;
\* then line 158 and the return to the caller.
send_done(t) ==
    /\ pc[t] \in SendPcs
    /\ sent < MaxMsgs
    /\ sent' = sent + 1
    /\ recent' = LastN(Append(recent, sent + 1), HistoryLimit)
    /\ menu' = IF pc[t] = "m_send_first" THEN [id |-> sent + 1] ELSE menu
    /\ sends' = [sends EXCEPT ![t] = @ + 1]
    /\ updating' = FALSE
    /\ caller' = [caller EXCEPT ![t] = "none"]
    /\ AfterMenu(t, caller[t], FALSE)
    /\ UNCHANGED <<queueVars, now, loop, waiting, deleted, edited, voteVars,
                   destroyed>>
    /\ UNCHANGED unitVars

\* The await of channel.send raises: nothing catches it.
send_failed(t) ==
    /\ pc[t] \in SendPcs
    /\ pc' = [pc EXCEPT ![t] = "raised"]
    /\ caller' = [caller EXCEPT ![t] = "none"]
    /\ UNCHANGED <<queueVars, plays, now, current, loop, waiting, updating,
                   chanVars, voteVars, destroyed, sends>>
    /\ UNCHANGED unitVars

\* Other members flood the channel with HistoryLimit messages.
traffic ==
    /\ recent # [i \in 1..HistoryLimit |-> 0]
    /\ recent' = [i \in 1..HistoryLimit |-> 0]
    /\ UNCHANGED <<queueVars, plays, now, current, loop, waiting, updating,
                   menu, sent, deleted, edited, voteVars, destroyed, pc,
                   caller, sends>>
    /\ UNCHANGED unitVars

\* ----------------------------------------------------------------- teardown
\* teardown, lines 230-238, from the call to its first await: without a menu
\* the AttributeError is logged and destroy() is awaited.
TeardownCall(t) ==
    pc' = [pc EXCEPT ![t] = IF menu = NoMenu THEN "td_destroy" ELSE "td_delete"]

\* teardown that lets the HTTPException of menu.delete() escape.
td_delete_done_Propagates(t, ok) ==
    /\ pc[t] = "td_delete"
    /\ ok => menu.id \notin deleted
    /\ deleted' = IF ok THEN deleted \cup {menu.id} ELSE deleted
    /\ recent' = IF ok THEN SelectSeq(recent, LAMBDA m : m # menu.id) ELSE recent
    /\ pc' = [pc EXCEPT ![t] = IF ok THEN "td_destroy" ELSE "raised"]
    /\ UNCHANGED <<queueVars, plays, now, current, loop, waiting, updating,
                   menu, sent, edited, voteVars, destroyed, caller, sends>>
    /\ UNCHANGED unitVars

\* The await of menu.delete() in teardown ends, lines 231-238.
td_delete_done(t, ok) ==
    /\ pc[t] = "td_delete"
    /\ ok => menu.id \notin deleted
    /\ deleted' = IF ok THEN deleted \cup {menu.id} ELSE deleted
    /\ recent' = IF ok THEN SelectSeq(recent, LAMBDA m : m # menu.id) ELSE recent
    /\ pc' = [pc EXCEPT ![t] = "td_destroy"]
    /\ UNCHANGED <<queueVars, plays, now, current, loop, waiting, updating,
                   menu, sent, edited, voteVars, destroyed, caller, sends>>
    /\ UNCHANGED unitVars

\* The await of destroy() ends, lines 237-240: the node resource is released
\* (found), or it was not there any more and the KeyError is logged.
td_destroy_done(t, found) ==
    /\ pc[t] = "td_destroy"
    /\ found => ~destroyed
    /\ destroyed' = TRUE
    /\ pc' = [pc EXCEPT ![t] = "ret_teardown"]
    /\ UNCHANGED <<queueVars, plays, now, current, loop, waiting, updating,
                   chanVars, voteVars, caller, sends>>
    /\ UNCHANGED unitVars

\* A command (stop) tears the session down: teardown is called on its own.
teardown(t) ==
    /\ pc[t] = "idle"
    /\ TeardownCall(t)
    /\ UNCHANGED <<queueVars, plays, now, current, loop, waiting, updating,
                   chanVars, voteVars, destroyed, caller, sends>>
    /\ UNCHANGED unitVars

\* ------------------------------------------------------------ play_next_song
\* A queue.get() that returns the head without taking it off the queue.
GetAndPlay_Peek(t) ==
    /\ queue # <<>>
    /\ queue' = queue
    /\ popped' = Append(popped, Head(queue))
    /\ now' = Head(queue)
    /\ play(Head(queue))
    /\ pc' = [pc EXCEPT ![t] = "play_new"]

\* Lines 115-117: queue.get() returns the head, which becomes self.now and
\* is handed to play().
GetAndPlay(t) ==
    /\ queue # <<>>
    /\ queue' = Tail(queue)
    /\ popped' = Append(popped, Head(queue))
    /\ now' = Head(queue)
    /\ play(Head(queue))
    /\ pc' = [pc EXCEPT ![t] = "play_new"]

\* The guard of line 100 without the test of is_playing.
Busy_NoPlayingTest == waiting

\* The guard of line 100 without the test of waiting.
Busy_NoWaitingTest == is_playing

\* The guard of line 100: a track is rendered, or a play_next_song is under way.
Busy == is_playing \/ waiting

\* play_next_song, lines 100-117 and 125-127: from the call to the first
\* await that suspends (queue.get() on an empty queue, or play()).
play_next_song(t) ==
    /\ pc[t] = "idle"
    /\ IF Busy
       THEN /\ pc' = [pc EXCEPT ![t] = "ret_noop"]
            /\ UNCHANGED <<queueVars, plays, now, current, loop, waiting,
                           updating, chanVars, voteVars, destroyed, caller,
                           sends>>
       ELSE /\ votes' = ClearedVotes
            /\ IF ~loop
               THEN /\ waiting' = TRUE
                    /\ IF queue # <<>>
                       THEN GetAndPlay(t)
                       ELSE /\ pc' = [pc EXCEPT ![t] = "get"]
                            /\ UNCHANGED <<queue, popped, now, plays, current>>
               ELSE /\ play(now)
                    /\ pc' = [pc EXCEPT ![t] = "play_loop"]
                    /\ UNCHANGED <<queue, popped, now, waiting>>
            /\ UNCHANGED <<nput, loop, updating, chanVars, casts, destroyed,
                           caller, sends>>
    /\ UNCHANGED unitVars

\* The await of queue.get() ends with a track, lines 115-117.
get_done(t) ==
    /\ pc[t] = "get"
    /\ GetAndPlay(t)
    /\ UNCHANGED <<nput, loop, waiting, updating, chanVars, voteVars,
                   destroyed, caller, sends>>
    /\ UNCHANGED unitVars

\* A timeout handler that swallows the timeout instead of tearing down.
get_timeout_Swallowed(t) ==
    /\ pc[t] = "get"
    /\ IF loop
       THEN play(now) /\ pc' = [pc EXCEPT ![t] = "play_loop"]
       ELSE pc' = [pc EXCEPT ![t] = "ret_ok"] /\ UNCHANGED <<plays, current>>
    /\ UNCHANGED <<queueVars, now, loop, waiting, updating, chanVars, voteVars,
                   destroyed, caller, sends>>
    /\ UNCHANGED unitVars

\* The 120 seconds of line 114 elapse in queue.get(): lines 122-124.
get_timeout(t) ==
    /\ pc[t] = "get"
    /\ TeardownCall(t)
    /\ UNCHANGED <<queueVars, plays, now, current, loop, waiting, updating,
                   chanVars, voteVars, destroyed, caller, sends>>
    /\ UNCHANGED unitVars

\* The await of play() ends: lines 118-121 for a new track, line 128 for a
\* repeat.
play_done(t) ==
    /\ pc[t] \in {"play_new", "play_loop"}
    /\ waiting' = IF pc[t] = "play_new" THEN FALSE ELSE waiting
    /\ EnterMenu(t, IF pc[t] = "play_new" THEN "new" ELSE "loop")
    /\ UNCHANGED <<queueVars, now, loop, chanVars, voteVars, destroyed>>
    /\ UNCHANGED unitVars

\* The await of play() raises: nothing in play_next_song catches it.
play_failed(t) ==
    /\ pc[t] \in {"play_new", "play_loop"}
    /\ pc' = [pc EXCEPT ![t] = "raised"]
    /\ UNCHANGED <<queueVars, plays, now, current, loop, waiting, updating,
                   chanVars, voteVars, destroyed, caller, sends>>
    /\ UNCHANGED unitVars

\* The loop setter, line 259.
set_loop(value) ==
    /\ loop # value
    /\ loop' = value
    /\ UNCHANGED <<queueVars, plays, now, current, waiting, updating,
                   chanVars, voteVars, destroyed, pc, caller, sends>>
    /\ UNCHANGED unitVars

\* The node reports that the track has ended: nothing is rendered any more.
track_end ==
    /\ current # None
    /\ current' = None
    /\ UNCHANGED <<queueVars, plays, now, loop, waiting, updating, chanVars,
                   voteVars, destroyed, pc, caller, sends>>
    /\ UNCHANGED unitVars

\* The coroutine has returned or raised: its task is over.
Returned == {"ret_noop", "ret_skip", "ret_ok", "ret_teardown", "raised"}

\* --------------------------------------------------------------- process.py
\* Exit statuses of the shell that runs the node: killed by SIGINT, clean
\* exit, java's failure, command not found.
ReturnCodes == {0 - 2, 0, 1, 127}

\* run_lavalink_process, lines 14-43, with the exit status of `which java`
\* and, when java is found, of the launch command.
run_lavalink_process(which, rc) ==
    /\ lava' = IF which = 0
               THEN [ran |-> TRUE, found |-> TRUE, launched |-> TRUE, rc |-> rc,
                     running_logged |-> (rc = 0),
                     failure_logged |-> (rc # 0 - 2),
                     missing_logged |-> FALSE]
               ELSE [ran |-> TRUE, found |-> FALSE, launched |-> FALSE,
                     rc |-> None, running_logged |-> FALSE,
                     failure_logged |-> FALSE, missing_logged |-> TRUE]
    /\ UNCHANGED <<queueVars, plays, now, current, loop, waiting, updating,
                   chanVars, voteVars, destroyed, pc, caller, sends, qcall,
                   tally, report>>

\* ------------------------------------------------------------ Developer_.py
Users == 1..NumUsers
Owner == 1

\* The top-level commands of the Owner cog; their sub-commands run behind
\* the same check.
OwnerCommands == {"botconfig", "cleanup", "status"}

\* What a command that passed its checks can fail with.
BodyErrors == {"CommandInvokeError", "ConversionError", "CommandError"}

\* commands.is_owner(), lines 113, 265, 307.
is_owner(u) == u = Owner

\* The handler without its NotOwner branch.
cog_slash_command_error_NoOwnerBranch(u, c, error, done) ==
    /\ report' = [invoker |-> u, command |-> c, error |-> error,
                  sent |-> "traceback",
                  via |-> IF done THEN "followup" ELSE "response",
                  ephemeral |-> FALSE]
    /\ UNCHANGED <<queueVars, plays, now, current, loop, waiting, updating,
                   chanVars, voteVars, destroyed, pc, caller, sends, qcall,
                   tally, lava>>

\* Owner.cog_slash_command_error, lines 59-107.
cog_slash_command_error(u, c, error, done) ==
    /\ report' = [invoker |-> u, command |-> c, error |-> error,
                  sent |-> IF error = "NotOwner" THEN "generic"
                           ELSE "traceback",
                  via |-> IF done THEN "followup" ELSE "response",
                  ephemeral |-> (error = "NotOwner")]
    /\ UNCHANGED <<queueVars, plays, now, current, loop, waiting, updating,
                   chanVars, voteVars, destroyed, pc, caller, sends, qcall,
                   tally, lava>>

\* A command of the cog fails: the check raises NotOwner before the command
\* has responded, or the command itself raises for the owner.
slash_command(u, c, error, done) ==
    /\ IF is_owner(u) THEN error \in BodyErrors
                      ELSE error = "NotOwner" /\ ~done
    /\ cog_slash_command_error(u, c, error, done)


task_over(t) ==
    /\ pc[t] \in Returned
    /\ pc' = [pc EXCEPT ![t] = "idle"]
    /\ sends' = [sends EXCEPT ![t] = 0]
    /\ UNCHANGED <<queueVars, plays, now, current, loop, waiting, updating,
                   chanVars, voteVars, destroyed, caller>>
    /\ UNCHANGED unitVars

Next ==
    \/ put
    \/ \E a \in VoteActions, v \in Voters : cast(a, v)
    \/ \E b \in BOOLEAN : set_loop(b)
    \/ track_end
    \/ traffic
    \/ \E t \in Tasks : play_next_song(t)
    \/ \E t \in Tasks : get_done(t)
    \/ \E t \in Tasks : get_timeout(t)
    \/ \E t \in Tasks : play_done(t)
    \/ \E t \in Tasks : play_failed(t)
    \/ \E t \in Tasks : songmenucontroller(t)
    \/ \E t \in Tasks, b \in BOOLEAN : scan_done(t, b)
    \/ \E t \in Tasks, b \in BOOLEAN : delete_done(t, b)
    \/ \E t \in Tasks : send_done(t)
    \/ \E t \in Tasks : send_failed(t)
    \/ \E t \in Tasks, b \in BOOLEAN : td_delete_done(t, b)
    \/ \E t \in Tasks, b \in BOOLEAN : td_destroy_done(t, b)
    \/ \E t \in Tasks : task_over(t)

\* The session with its commands, votes, channel traffic and the node's events.
Spec == Init /\ [][Next]_vars

\* The session without votes and without channel traffic.
NextPlayer ==
    \/ put
    \/ \E b \in BOOLEAN : set_loop(b)
    \/ track_end
    \/ \E t \in Tasks : play_next_song(t)
    \/ \E t \in Tasks : get_done(t)
    \/ \E t \in Tasks : get_timeout(t)
    \/ \E t \in Tasks : play_done(t)
    \/ \E t \in Tasks : play_failed(t)
    \/ \E t \in Tasks : songmenucontroller(t)
    \/ \E t \in Tasks, b \in BOOLEAN : scan_done(t, b)
    \/ \E t \in Tasks, b \in BOOLEAN : delete_done(t, b)
    \/ \E t \in Tasks : send_done(t)
    \/ \E t \in Tasks : send_failed(t)
    \/ \E t \in Tasks, b \in BOOLEAN : td_delete_done(t, b)
    \/ \E t \in Tasks, b \in BOOLEAN : td_destroy_done(t, b)
    \/ \E t \in Tasks : task_over(t)

SpecPlayer == Init /\ [][NextPlayer]_vars

\* The session when no command ever switches the loop flag on.
NextNoLoop ==
    \/ put
    \/ track_end
    \/ \E t \in Tasks : play_next_song(t)
    \/ \E t \in Tasks : get_done(t)
    \/ \E t \in Tasks : get_timeout(t)
    \/ \E t \in Tasks : play_done(t)
    \/ \E t \in Tasks : play_failed(t)
    \/ \E t \in Tasks : songmenucontroller(t)
    \/ \E t \in Tasks, b \in BOOLEAN : scan_done(t, b)
    \/ \E t \in Tasks, b \in BOOLEAN : delete_done(t, b)
    \/ \E t \in Tasks : send_done(t)
    \/ \E t \in Tasks : send_failed(t)
    \/ \E t \in Tasks, b \in BOOLEAN : td_delete_done(t, b)
    \/ \E t \in Tasks, b \in BOOLEAN : td_destroy_done(t, b)
    \/ \E t \in Tasks : task_over(t)

SpecNoLoop == Init /\ [][NextNoLoop]_vars

\* The same session with a stop command that tears it down.
NextStop ==
    \/ NextPlayer
    \/ \E t \in Tasks : teardown(t)

SpecStop == Init /\ [][NextStop]_vars

\* The control surface alone: refreshes called by commands, in a channel
\* with traffic.
NextMenu ==
    \/ traffic
    \/ \E t \in Tasks : songmenucontroller(t)
    \/ \E t \in Tasks, b \in BOOLEAN : scan_done(t, b)
    \/ \E t \in Tasks, b \in BOOLEAN : delete_done(t, b)
    \/ \E t \in Tasks : send_done(t)
    \/ \E t \in Tasks : send_failed(t)
    \/ \E t \in Tasks : task_over(t)

SpecMenu == Init /\ [][NextMenu]_vars

\* The control surface and the stop command that tears the session down.
NextTeardown ==
    \/ NextMenu
    \/ \E t \in Tasks : teardown(t)
    \/ \E t \in Tasks, b \in BOOLEAN : td_delete_done(t, b)
    \/ \E t \in Tasks, b \in BOOLEAN : td_destroy_done(t, b)

SpecTeardown == Init /\ [][NextTeardown]_vars

\* The Queue alone, under the commands that change it.
NextQueue ==
    \/ put
    \/ clear
    \/ shuffle
    \/ \E i \in RemoveIndexes : getitem(i)
    \/ \E i \in RemoveIndexes : remove(i)

SpecQueue == Init /\ [][NextQueue]_vars

\* The vote ledger alone: the listeners vote and the commands ask.
NextVotes ==
    \/ \E a \in VoteActions, v \in Listeners : cast_vote(a, v)
    \/ \E a \in VoteActions : ask(a, Cardinality(Listeners))

SpecVotes == Init /\ [][NextVotes]_vars

\* The bot outside a session: the node launch and the owner cog's commands.
NextBot ==
    \/ \E which \in {0, 1}, rc \in ReturnCodes : run_lavalink_process(which, rc)
    \/ \E u \in Users, c \in OwnerCommands,
          error \in BodyErrors \cup {"NotOwner"}, done \in BOOLEAN :
            slash_command(u, c, error, done)

SpecBot == Init /\ [][NextBot]_vars

\* ===================================================================
\* Properties
\* ===================================================================
TeardownPcs == {"td_delete", "td_destroy"}

\* The message of the handle is among the messages a history scan yields.
MenuVisible ==
    /\ menu # NoMenu
    /\ \E i \in 1..Len(recent) : recent[i] = menu.id

\* Task t takes the first step of a play_next_song call.
PlayNextCalled(t) ==
    /\ pc[t] = "idle"
    /\ pc'[t] \in {"ret_noop", "get", "play_new", "play_loop"}

\* Task t takes the first step of a songmenucontroller call, from a command
\* or from play_next_song.
RefreshCalled(t) ==
    \/ pc[t] = "idle" /\ pc'[t] \in MenuPcs \cup {"ret_skip"}
    \/ pc[t] \in {"play_new", "play_loop"} /\ pc'[t] \notin {pc[t], "raised"}

\* Task t takes the last step of a songmenucontroller that ends normally.
RefreshEnds(t) ==
    /\ pc[t] \in MenuPcs
    /\ pc'[t] \notin MenuPcs \cup {"raised"}

\* C1: a play_next_song called while a track is playing or while the session
\* is waiting returns at once: it pops nothing, requests no play and leaves
\* the current track, the vote sets, the waiting flag and the queue alone.
C1_PlayNextNoOpWhenBusy ==
    [][\A t \in Tasks :
        (PlayNextCalled(t) /\ (is_playing \/ waiting)) =>
            /\ pc'[t] = "ret_noop"
            /\ UNCHANGED <<queue, popped, plays, now, current, votes, waiting>>
      ]_vars

C1_Witness ==
    \E t \in Tasks : pc[t] = "ret_noop" /\ is_playing /\ ~waiting /\ queue # <<>>

\* C2: right after the vote reset of a new-track transition all six vote
\* sets are empty.
C2_AllSixVoteSetsEmpty ==
    [][\A t \in Tasks :
        (PlayNextCalled(t) /\ pc'[t] \in {"get", "play_new"}) =>
            \A a \in VoteActions : votes'[a] = {}
      ]_vars

\* C3: a loop repeat leaves every vote set as it was.
C3_LoopRepeatKeepsVotes ==
    [][\A t \in Tasks :
        (PlayNextCalled(t) /\ pc'[t] = "play_loop") => votes' = votes
      ]_vars

\* C4: a play_next_song whose queue.get() times out on an empty queue goes
\* to teardown, and from then on that call requests no play, makes no track
\* the rendered one, and ends only after destroy().
C4_TimeoutTearsDown ==
    [][\A t \in Tasks :
        /\ (pc[t] = "get" /\ queue = <<>> /\ pc'[t] # "get") =>
                /\ pc'[t] \in TeardownPcs
                /\ UNCHANGED <<plays, current>>
        /\ (pc[t] \in TeardownPcs /\ pc'[t] # pc[t]) =>
                /\ pc'[t] \in TeardownPcs \cup {"ret_teardown"}
                /\ pc'[t] = "ret_teardown" => destroyed'
                /\ UNCHANGED <<plays, current>>
        /\ (pc[t] = "ret_teardown" /\ pc'[t] # pc[t]) =>
                /\ pc'[t] = "idle"
                /\ UNCHANGED <<plays, current>>
      ]_vars

C4_Witness ==
    \E t \in Tasks :
        pc[t] = "ret_teardown" /\ destroyed /\ nput = 0 /\ plays = <<>>

\* C5: the tracks popped so far, followed by the tracks still queued, are the
\* tracks put so far in the order of their puts: pops are first in, first out.
C5_Fifo ==
    popped \o queue = [i \in 1..nput |-> i]

C5_Witness ==
    /\ popped = <<1, 2>>
    /\ \E t \in Tasks : pc[t] = "play_new"

\* C6: at most one play_next_song is suspended in queue.get() at a time.
C6_OneWaiter ==
    Cardinality({t \in Tasks : pc[t] = "get"}) <= 1

C6_Witness ==
    \E t, u \in Tasks : pc[t] = "get" /\ pc[u] = "ret_noop"

\* C7: at most one refresh is under way at a time, and a refresh called
\* while the updating flag is set skips: it sends, edits and deletes nothing.
C7_RefreshNoOpWhenUpdating ==
    /\ [](Cardinality({t \in Tasks : pc[t] \in MenuPcs}) <= 1)
    /\ [][\A t \in Tasks :
            (RefreshCalled(t) /\ updating) =>
                /\ pc'[t] \notin MenuPcs
                /\ UNCHANGED <<menu, sent, deleted, edited, recent, updating>>
         ]_vars

C7_Witness ==
    \E t, u \in Tasks : pc[t] = "ret_skip" /\ pc[u] \in MenuPcs

\* C8: every refresh that ends normally, the first one without a handle and
\* a later one with the message still visible, has created exactly one new
\* message, in its last step, and no message is ever edited.
C8_OneNewMessagePerRefresh ==
    /\ [](edited = {})
    /\ [](\A t \in Tasks : pc[t] \in MenuPcs => sends[t] = 0)
    /\ [][\A t \in Tasks :
            RefreshEnds(t) =>
                /\ sent' = sent + 1
                /\ sends'[t] = 1
                /\ pc[t] = "m_send_first" => menu' = [id |-> sent']
         ]_vars

C8_Witness ==
    /\ sent = 2
    /\ recent \in {<<2>>, <<1, 2>>}
    /\ \E t \in Tasks : pc[t] = "ret_ok" /\ sends[t] = 1

\* C9: when the scan succeeds and finds the message of the handle among the
\* recent messages, the refresh goes on to send without deleting.
C9_VisibleMenuNotDeleted ==
    [][\A t \in Tasks :
        (scan_done(t, TRUE) /\ MenuVisible) => pc'[t] = "m_send_else"
      ]_vars

\* C10: when the message of the handle is not among the recent messages, or
\* the scan fails, the refresh tries to delete it, goes on whatever the
\* delete answers, and ends with exactly one new message.
C10_StaleMenuReplaced ==
    [][\A t \in Tasks :
        /\ (scan_done(t, TRUE) /\ ~MenuVisible) => pc'[t] = "m_delete"
        /\ scan_done(t, FALSE) => pc'[t] = "m_delete"
        /\ (pc[t] = "m_delete" /\ pc'[t] # pc[t]) => pc'[t] = "m_send_repl"
        /\ (pc[t] = "m_send_repl" /\ RefreshEnds(t)) =>
                /\ sent' = sent + 1
                /\ sends'[t] = 1
      ]_vars

C10_Witness ==
    /\ menu # NoMenu
    /\ menu.id \notin deleted
    /\ sent = 2
    /\ recent = [i \in 1..HistoryLimit |-> IF i < HistoryLimit THEN 0 ELSE 2]
    /\ \E t \in Tasks : pc[t] = "ret_ok" /\ sends[t] = 1

\* Task t takes the first step of a teardown call, from the timeout handler
\* or from a command.
TeardownCalled(t) ==
    /\ pc[t] \in {"get", "idle"}
    /\ pc'[t] \in TeardownPcs

\* C11: teardown goes on to destroy() when there is no menu to delete and
\* whatever menu.delete() answers, and it returns normally whether destroy()
\* finds the node resource or not.
C11_TeardownBestEffort ==
    [][\A t \in Tasks :
        /\ (TeardownCalled(t) /\ menu = NoMenu) => pc'[t] = "td_destroy"
        /\ (pc[t] = "td_delete" /\ pc'[t] # pc[t]) => pc'[t] = "td_destroy"
        /\ (pc[t] = "td_destroy" /\ pc'[t] # pc[t]) =>
                /\ pc'[t] = "ret_teardown"
                /\ destroyed'
      ]_vars

C11_Witness ==
    /\ menu # NoMenu
    /\ menu.id \notin deleted
    /\ destroyed
    /\ \E t \in Tasks : pc[t] = "ret_teardown"

\* C12: a play_next_song called after teardown has released the session pops
\* nothing and requests no play.
C12_TornDownNeverPlays ==
    [][\A t \in Tasks :
        (destroyed /\ PlayNextCalled(t)) => UNCHANGED <<queue, popped, plays>>
      ]_vars

\* C13: a play request that fails sends the session to teardown.
C13_PlayFailureTearsDown ==
    [][\A t \in Tasks : play_failed(t) => pc'[t] \in TeardownPcs]_vars

\* C14: once a message has been sent, the handle is the message sent last.
C14_MenuIsLatestMessage ==
    sent > 0 => menu.id = sent

\* C15: a repeat requests the play of self.now and goes on to the refresh;
\* it pops nothing and leaves the queue and self.now as they are.
C15_RepeatKeepsQueueAndTrack ==
    [][\A t \in Tasks :
        /\ (pc[t] # "play_loop" /\ pc'[t] = "play_loop") =>
                /\ plays' = Append(plays, now)
                /\ current' = now
                /\ UNCHANGED <<queue, popped, now>>
        /\ (pc[t] = "play_loop" /\ pc'[t] \notin {"play_loop", "raised"}) =>
                /\ pc'[t] \in MenuPcs \/ updating
                /\ UNCHANGED <<queue, popped, now, plays>>
      ]_vars

C15_Witness ==
    /\ loop
    /\ now = 1
    /\ popped = <<1>>
    /\ plays = <<1, 1>>
    /\ \E t \in Tasks : pc[t] \in MenuPcs /\ caller[t] = "loop"

\* C16: a queue.get() that ends while a track is queued ends with that track:
\* the track becomes self.now and its play is requested.
C16_QueuedTrackIsPlayed ==
    [][\A t \in Tasks :
        (pc[t] = "get" /\ queue # <<>> /\ pc'[t] # "get") =>
            /\ now' = Head(queue)
            /\ plays' = Append(plays, Head(queue))
      ]_vars

\* C17: Queue.remove called with the size of the queue as index raises
\* IndexError and leaves the queue as it is.
C17_RemoveAtSizeFails ==
    [][\A i \in RemoveIndexes :
        (remove(i) /\ i = Len(queue)) =>
            /\ qcall'.error = "IndexError"
            /\ queue' = queue
      ]_vars

C17_Witness ==
    /\ qcall.method = "remove"
    /\ qcall.error = "IndexError"
    /\ queue = <<2, 1>>
    /\ qcall.index = Len(queue)

C19_OneLaunchOutcome ==
    lava.ran =>
        /\ lava.launched <=> lava.found
        /\ ~lava.found => (lava.missing_logged /\ ~lava.running_logged
                           /\ ~lava.failure_logged)
        /\ lava.found => (lava.running_logged <=> ~lava.failure_logged)

\* C20: the full error detail is sent only if the invoking user is the bot
\* owner; any other invoker receives only the generic permission denial.
C20_DetailOnlyToOwner ==
    report.sent # "none" =>
        /\ report.sent = "traceback" => report.invoker = Owner
        /\ report.invoker # Owner =>
               (report.sent = "generic" /\ report.ephemeral)

C20_Witness ==
    /\ report.invoker = 2
    /\ report.error = "NotOwner"
    /\ report.sent = "generic"

\* C21: with the loop flag never set and no shuffle, remove or clear, the
\* play requests are the tracks put, in the order they were put and each at
\* most once, and self.now is the track of the latest play request.
C21_PlaysArePrefixOfEnqueues ==
    /\ ~loop
    /\ Len(plays) <= nput
    /\ \A i \in 1..Len(plays) : plays[i] = i
    /\ plays # <<>> => now = plays[Len(plays)]

C21_Witness ==
    /\ plays = <<1, 2>>
    /\ now = 2
    /\ queue = <<>>

\* C22: a play_next_song call that has requested a play requests no other:
\* no step of a task past its play request adds a play request.
C22_OnePlayPerCall ==
    [][\A t \in Tasks :
        (pc[t] \in MenuPcs \cup {"play_new", "play_loop"} /\ pc'[t] # pc[t])
            => plays' = plays
      ]_vars

\* C23: every play request carries a track.
C23_NoPlayOfNone ==
    \A i \in 1..Len(plays) : plays[i] # None

\* C24: waiting is set only while a play_next_song is between its pop and
\* the end of its play request, or once the session is torn down.
C24_WaitingOnlyInProgress ==
    waiting =>
        \/ \E t \in Tasks : pc[t] \in {"get", "play_new"} \cup TeardownPcs
        \/ destroyed

\* C25: updating is set only while a songmenucontroller is in progress.
C25_UpdatingOnlyInProgress ==
    updating => \E t \in Tasks : pc[t] \in MenuPcs

====
